---- MODULE Spec2Model ----
(***************************************************************************)
(* devscorer: the contribution complexity evaluation engine.               *)
(*                                                                         *)
(*  Spec       the attempt / compare / hint loop of                        *)
(*             GitContributionScorer.analyzeContribution (src/index.ts)    *)
(*             with its ClaudeRunner, CodeComparator and ScoringEngine.    *)
(*  BatchSpec  GitContributionScorer.analyzeContributions of               *)
(*             core/contribution-analyzer.ts (sequential and parallel      *)
(*             path) with the ClaudeRunner that works in the shared clone. *)
(*  ScoreSpec  ScoringEngine.calculateComplexityScore on drawn arguments.  *)
(*  CombineSpec DeveloperAnalyzer.calculateCombinedScore on drawn          *)
(*             arguments.                                                  *)
(*  RepoSpec   DeveloperAnalyzer.performTechnicalAnalysis analysing        *)
(*             several repositories in parallel through one GitAnalyzer.   *)
(*                                                                         *)
(* Scores are kept in thousandths of a point (1 point = 1000), similarity  *)
(* scores and thresholds in hundredths (1.0 = 100).                        *)
(***************************************************************************)
EXTENDS Integers, Sequences, FiniteSets, TLC

VARIABLES
  \* ---- configuration (utils/config.ts)
  maxHintsPerAnalysis,   \* config.maxHintsPerAnalysis
  similarityThreshold,   \* config.similarityThreshold, in hundredths
  \* ---- analyzeContribution of src/index.ts
  contribution,          \* the GitContribution under analysis (its shape)
  pc,                    \* the await the function is suspended at
  category,              \* result of categorizeContribution
  preCommitRepo,         \* "absent" | "present" | "removed"
  removeAttempts,        \* number of fs.remove(preCommitRepoPath) calls
  functionalityMatched,
  hintsGiven,            \* Seq of [level, type]
  attempts,
  lastPrompt,            \* what runClaudeCode last sent to the agent
  sessionId,             \* ClaudeRunner.sessionId (0 = null, r = captured in round r)
  technicalComparison,   \* verdict of the current round
  oracleFailed,          \* the oracle call of the current round threw
  agentFailedAt,         \* round in which the agent failed or threw (0 = none)
  oracleCalls,           \* calls of compareTechnicalContributions
  hintCalls,             \* calls of generateTechnicalHint
  lastHintContent,       \* text of the newest hint: where it came from
  result,                \* what analyzeContribution returned
  \* ---- analyzeContributions of core/contribution-analyzer.ts
  parallelOptions,       \* [parallel, concurrency]
  numFound,              \* contributionsToAnalyze.length
  docOnlyAt,             \* index of the documentation-only contribution (0 = none)
  batchPc,               \* "clone" | "list" | "running" | "returned" | "threw"
  clone,                 \* the cloned repository: "none" | "present" | "removed"
  cleanupCalls,          \* calls of gitAnalyzer.cleanup()
  taskPc,                \* per contribution: the await its analysis is suspended at
  taskAttempts,          \* per contribution: attempts
  taskHints,             \* per contribution: hints
  taskResume,            \* per contribution: session its in-flight query resumes (0 = none)
  taskOutcome,           \* per contribution: what analyzeContribution returned or threw
  repoHead,              \* commit checked out in the clone (0 = as cloned, t = pre-commit state of t)
  sharedSessionId,       \* ClaudeRunner.sessionId (0 = null, t = captured in a round of t)
  developerScores,       \* Seq of [task, score]
  report,                \* developerScores of the returned AnalysisReport
  \* ---- pure functions applied to drawn inputs
  scoreInput,            \* arguments of ScoringEngine.calculateComplexityScore
  scoreOutput,           \* its results, per functionalityMatched ("none" = not computed)
  combineInput,          \* arguments of DeveloperAnalyzer.calculateCombinedScore
  combineOutput,         \* the DeveloperScore it returned
  \* ---- performTechnicalAnalysis over several repositories, one GitAnalyzer
  numRepos,              \* topRepos.length
  repoPc,                \* per repository: the await its analysis is suspended at
  tempDirs,              \* per temporary directory: "none" | "present" | "removed"
  repoPath,              \* GitAnalyzer.repoPath (0 = '', d = the directory made for d)
  git,                   \* directory GitAnalyzer.git is bound to (0 = simpleGit())
  readFrom,              \* per repository: directory its contributions were read from
  removedBy              \* per directory: repository whose cleanup removed it (0 = none)

loopVars == <<contribution, pc, category, preCommitRepo, removeAttempts,
              functionalityMatched, hintsGiven, attempts, lastPrompt, sessionId,
              technicalComparison, oracleFailed, agentFailedAt, oracleCalls,
              hintCalls, lastHintContent, result>>

cfgVars == <<maxHintsPerAnalysis, similarityThreshold>>

taskVars == <<taskPc, taskAttempts, taskHints, taskResume, taskOutcome>>

batchVars == <<parallelOptions, numFound, docOnlyAt, batchPc, clone, cleanupCalls,
               taskVars, repoHead, sharedSessionId, developerScores, report>>

calcVars == <<scoreInput, scoreOutput, combineInput, combineOutput>>

repoVars == <<numRepos, repoPc, tempDirs, repoPath, git, readFrom, removedBy>>

vars == <<cfgVars, loopVars, batchVars, calcVars, repoVars>>

----------------------------------------------------------------------------
(* Arithmetic helpers *)

Min(a, b) == IF a <= b THEN a ELSE b

Max(a, b) == IF a >= b THEN a ELSE b

\* Math.round(v) of a non-negative value held in thousandths
RoundToInteger(v) == ((v + 500) \div 1000) * 1000

\* Math.round(v * 100) / 100 of a non-negative value held in thousandths
RoundToHundredths(v) == ((v + 5) \div 10) * 10

----------------------------------------------------------------------------
(* utils/config.ts *)

MinHintsAllowed == 1

MaxHintsAllowed == 20

\* thresholds validateConfig accepts: 0 <= t <= 1 (0.85 is the default)
Thresholds == {0, 30, 85, 100}

ValidConfig(maxHints, threshold) ==
  /\ ~(maxHints < MinHintsAllowed \/ maxHints > MaxHintsAllowed)
  /\ ~(threshold < 0 \/ threshold > 100)

----------------------------------------------------------------------------
(* core/scoring-engine.ts *)

\* analyzeCodeComplexity: patternWeight is the weighted number of pattern
\* matches in added lines, counted in half points (the weights are 0.5 .. 3)
AnalyzeCodeComplexity(c) == Min(c.patternWeight * 50, 15000)

CalculateBaseComplexity(c) ==
  Min(  Min(c.linesChanged * 100, 20000)
      + Min(c.filesModified * 2000, 15000)
      + Min(c.commitCount * 1500, 10000)
      + AnalyzeCodeComplexity(c),
      30000)

HintTypeScore(type) ==
  CASE type = "general"   -> 5
    [] type = "specific"  -> 10
    [] type = "technical" -> 15
    [] OTHER              -> 0

RECURSIVE HintScoreSum(_)
HintScoreSum(hints) ==
  IF hints = << >> THEN 0
  ELSE HintTypeScore(Head(hints).type) + Head(hints).level * 2
       + HintScoreSum(Tail(hints))

\* a hint component without its ceiling of 50
CalculateHintComplexityUncapped(hints) == HintScoreSum(hints) * 1000

CalculateHintComplexity(hints) == Min(HintScoreSum(hints) * 1000, 50000)

\* an attempt component whose first band reaches two attempts
CalculateAttemptPenaltyShifted(att, aiMatched) ==
  IF ~aiMatched THEN 20000
  ELSE IF att <= 2 THEN -10000
  ELSE IF att <= 3 THEN 0
  ELSE IF att <= 5 THEN 5000
  ELSE 10000

CalculateAttemptPenalty(att, aiMatched) ==
  IF ~aiMatched THEN 20000
  ELSE IF att <= 1 THEN -10000
  ELSE IF att <= 3 THEN 0
  ELSE IF att <= 5 THEN 5000
  ELSE 10000

\* a difficulty component whose bonus above seven hints replaces the
\* per-hint bonus instead of adding to it
CalculateDifficultyBonusReplacedAboveSeven(hintsNeeded, att, aiMatched) ==
  IF ~aiMatched THEN 15000
  ELSE   (IF hintsNeeded > 7 THEN 10000 ELSE Min(hintsNeeded * 3000, 20000))
       + (IF att > 5 THEN 5000 ELSE 0)

CalculateDifficultyBonus(hintsNeeded, att, aiMatched) ==
  IF ~aiMatched THEN 15000
  ELSE   Min(hintsNeeded * 3000, 20000)
       + (IF att > 5 THEN 5000 ELSE 0)
       + (IF hintsNeeded > 7 THEN 10000 ELSE 0)

NormalizeScore(rawScore) == Max(0, Min(100000, rawScore))

CalculateComplexityScore(c, hintsNeeded, hints, att, matched) ==
  RoundToHundredths(NormalizeScore(
      CalculateBaseComplexity(c)
    + CalculateHintComplexity(hints)
    + CalculateAttemptPenalty(att, matched)
    + CalculateDifficultyBonus(hintsNeeded, att, matched)))

CreateContributionScore(finalScore, hintsNeeded, att) ==
  [kind |-> "score", score |-> finalScore, hintsNeeded |-> hintsNeeded,
   attempts |-> att]

NullScore == [kind |-> "null", score |-> 0, hintsNeeded |-> 0, attempts |-> 0]

NotReturned == [kind |-> "pending", score |-> 0, hintsNeeded |-> 0, attempts |-> 0]

----------------------------------------------------------------------------
(* core/code-comparator.ts *)

\* similarity scores the oracle's answer can carry (0.5 is the parser default)
SimilarityScores == {0, 50, 85, 100}

\* lists of "factors that make A (the human contribution) better"
FactorLists == {<< >>, <<"f1">>, <<"f2", "f1">>}

ApiErrorFactor == "Unable to analyze technical factors due to API error"

ParsedComparisons ==
  [isEquivalent : BOOLEAN, similarityScore : SimilarityScores,
   factorsThatMakeABetter : FactorLists]

CreateFallbackTechnicalComparison ==
  [isEquivalent |-> FALSE, similarityScore |-> 30,
   factorsThatMakeABetter |-> <<ApiErrorFactor>>]

\* apiOk = FALSE: the messages.create call or the parse threw
CompareTechnicalContributions(apiOk, parsed) ==
  IF apiOk THEN parsed ELSE CreateFallbackTechnicalComparison

NoComparison ==
  [isEquivalent |-> FALSE, similarityScore |-> 0, factorsThatMakeABetter |-> << >>]

HintTypeForLevel(hintLevel) ==
  IF hintLevel <= 3 THEN "general"
  ELSE IF hintLevel <= 6 THEN "specific"
  ELSE "technical"

\* a parser that holds the level at the ceiling of five
ParseHintCappedAtFive(hintLevel) ==
  [content |-> "service", level |-> Min(hintLevel, 5),
   type |-> HintTypeForLevel(hintLevel)]

ParseHint(hintLevel) ==
  [content |-> "service", level |-> hintLevel, type |-> HintTypeForLevel(hintLevel)]

\* a fallback that never looks at the factors
CreateFallbackTechnicalHintGeneric(technicalFactors, hintLevel) ==
  [content |-> "template:generic",
   level   |-> hintLevel,
   type    |-> HintTypeForLevel(hintLevel)]

\* the wording of the template changes with the level in the same bands as
\* the hint type
CreateFallbackTechnicalHint(technicalFactors, hintLevel) ==
  [content |-> IF Len(technicalFactors) > 0
               THEN "template-" \o HintTypeForLevel(hintLevel) \o ":" \o technicalFactors[1]
               ELSE "template:generic",
   level   |-> hintLevel,
   type    |-> HintTypeForLevel(hintLevel)]

NullHint == [content |-> "null", level |-> 0, type |-> "none"]

\* a generator without the early return for an empty list of factors
GenerateTechnicalHintWithoutEmptyCheck(technicalFactors, hintLevel, apiOk) ==
  IF apiOk THEN ParseHint(hintLevel)
  ELSE CreateFallbackTechnicalHint(technicalFactors, hintLevel)

\* apiOk = FALSE: the hint service call threw
GenerateTechnicalHint(technicalFactors, hintLevel, apiOk) ==
  IF Len(technicalFactors) = 0 THEN NullHint
  ELSE IF apiOk THEN ParseHint(hintLevel)
  ELSE CreateFallbackTechnicalHint(technicalFactors, hintLevel)

----------------------------------------------------------------------------
(* ClaudeRunner of the pre-commit-repository snapshot (runClaudeCode,       *)
(* executeClaudeCode)                                                       *)

\* what one query() of the agent SDK can end in; "throw" is an exception
\* escaping runClaudeCode to the caller's catch
SdkOutcomes == {"success", "no_changes", "error_result", "timeout", "sdk_error"}

RunnerOutcomes == SdkOutcomes \cup {"throw"}

ExecuteClaudeCode(out) ==
  CASE out = "success"      -> [success |-> TRUE,  code |-> "diff", error |-> "none"]
    [] out = "error_result" -> [success |-> FALSE, code |-> "", error |-> "Claude Code failed"]
    [] out = "timeout"      -> [success |-> FALSE, code |-> "", error |-> "Claude Code execution timed out"]
    [] OTHER                -> [success |-> FALSE, code |-> "", error |-> "exception"]

\* a runner that sends the newest hint alone whether or not a session exists
RunClaudeCodePromptHintAlone(previousHints, sid) ==
  IF Len(previousHints) > 0
  THEN [kind |-> "latest-hint", hints |-> 1, hintIndex |-> Len(previousHints),
        resume |-> sid, referenceDiff |-> FALSE]
  ELSE [kind |-> "full", hints |-> 0, hintIndex |-> 0,
        resume |-> 0, referenceDiff |-> FALSE]

\* the prompt and the resume option runClaudeCode sends for a round: the
\* content of previousHints[length - 1] with options.resume, or the text of
\* buildPrompt, which lists every hint and never interpolates originalDiff
RunClaudeCodePrompt(previousHints, sid) ==
  LET isResumingSession == sid # 0 /\ Len(previousHints) > 0 IN
  IF isResumingSession
  THEN [kind |-> "latest-hint", hints |-> 1, hintIndex |-> Len(previousHints),
        resume |-> sid, referenceDiff |-> FALSE]
  ELSE [kind |-> "full", hints |-> Len(previousHints), hintIndex |-> 0,
        resume |-> 0, referenceDiff |-> FALSE]

NoPrompt == [kind |-> "none", hints |-> 0, hintIndex |-> 0, resume |-> 0,
             referenceDiff |-> FALSE]

----------------------------------------------------------------------------
(* GitContributionScorer of src/index.ts *)

\* shapes of a contribution: what categorizeContribution and the scoring
\* engine read from it
ContributionSizes ==
  { [linesChanged |-> 5,   filesModified |-> 1, commitCount |-> 1, patternWeight |-> 0],
    [linesChanged |-> 20,  filesModified |-> 2, commitCount |-> 2, patternWeight |-> 30],
    [linesChanged |-> 250, filesModified |-> 4, commitCount |-> 7, patternWeight |-> 300] }

ContributionShapes ==
  { [linesChanged |-> z.linesChanged, filesModified |-> z.filesModified,
     commitCount |-> z.commitCount, patternWeight |-> z.patternWeight,
     hasLogicChanges |-> hl, hasDocChanges |-> hd] :
       z \in ContributionSizes, hl \in BOOLEAN, hd \in BOOLEAN }

DocumentationComplexityOf(c) ==
  IF c.linesChanged > 50 THEN "heavy"
  ELSE IF c.linesChanged > 15 THEN "medium"
  ELSE "small"

CategorizeContribution(c) ==
  IF c.hasLogicChanges /\ c.hasDocChanges
  THEN [type |-> "mixed", documentationComplexity |-> DocumentationComplexityOf(c)]
  ELSE IF c.hasDocChanges /\ ~c.hasLogicChanges
  THEN [type |-> "documentation", documentationComplexity |-> DocumentationComplexityOf(c)]
  ELSE [type |-> "logic", documentationComplexity |-> "none"]

NoCategory == [type |-> "none", documentationComplexity |-> "none"]

DocBaseScore(dc) ==
  CASE dc = "small" -> 8 [] dc = "medium" -> 15 [] dc = "heavy" -> 25 [] OTHER -> 0

DocBonus(dc) ==
  CASE dc = "small" -> 3 [] dc = "medium" -> 7 [] dc = "heavy" -> 12 [] OTHER -> 0

ScoreDocumentationOnly(c, dc) ==
  CreateContributionScore(
    RoundToInteger(  DocBaseScore(dc) * 1000
                   + Min(c.linesChanged * 100, 10000)
                   + Min(c.commitCount * 2000, 8000)),
    0, 1)

\* lines 353-373: the score of a contribution that went through the loop
LoopComplexityScore(c, cat, hints, att, matched) ==
  LET complexityScore == CalculateComplexityScore(c, Len(hints), hints, att, matched) IN
  IF cat.type = "mixed" /\ cat.documentationComplexity # "none"
  THEN complexityScore + DocBonus(cat.documentationComplexity) * 1000
  ELSE complexityScore

\* a match test that reads the equivalence flag only
IsMatchEquivalentOnly(tc, threshold) == tc.isEquivalent

\* line 305
IsMatch(tc, threshold) == tc.isEquivalent \/ tc.similarityScore >= threshold

\* a slip that never looks at the agent's success flag
AgentSucceededIgnoringFailure(aiResult) == TRUE

\* line 292
AgentSucceeded(aiResult) == aiResult.success

\* a loop condition that admits one attempt more
LoopContinuesOneMore(matched, att) == ~matched /\ att <= maxHintsPerAnalysis

\* a loop whose catch lets the error go
LoopRethrowsErrors == FALSE

\* lines 336-339: an error thrown in a round is logged and the loop is left
LoopCatchesErrors == TRUE

ThrewError == [kind |-> "threw", score |-> 0, hintsNeeded |-> 0, attempts |-> 0]

\* the loop condition of line 279
LoopContinues(matched, att) == ~matched /\ att < maxHintsPerAnalysis

\* loop head: either the next round starts (attempts++, runClaudeCode is
\* called) or the loop is left
LoopHead(matched, att, hints, sid) ==
  IF LoopContinues(matched, att)
  THEN /\ attempts' = att + 1
       /\ lastPrompt' = RunClaudeCodePrompt(hints, sid)
       /\ pc' = "agent"
  ELSE /\ attempts' = att
       /\ lastPrompt' = lastPrompt
       /\ pc' = "cleanup"

LoopStart ==
  /\ maxHintsPerAnalysis \in MinHintsAllowed .. MaxHintsAllowed
  /\ similarityThreshold \in Thresholds
  /\ ValidConfig(maxHintsPerAnalysis, similarityThreshold)
  /\ contribution \in ContributionShapes
  /\ pc = "start"
  /\ category = NoCategory
  /\ preCommitRepo = "absent"
  /\ removeAttempts = 0
  /\ functionalityMatched = FALSE
  /\ hintsGiven = << >>
  /\ attempts = 0
  /\ lastPrompt = NoPrompt
  /\ sessionId = 0
  /\ technicalComparison = NoComparison
  /\ oracleFailed = FALSE
  /\ agentFailedAt = 0
  /\ oracleCalls = 0
  /\ hintCalls = 0
  /\ lastHintContent = "none"
  /\ result = NotReturned

\* lines 243-269: business purpose extracted, contribution categorized;
\* documentation is scored directly, anything else needs a pre-commit repo
Categorize ==
  /\ pc = "start"
  /\ category' = CategorizeContribution(contribution)
  /\ IF category'.type = "documentation" /\ category'.documentationComplexity # "none"
     THEN /\ result' = ScoreDocumentationOnly(contribution, category'.documentationComplexity)
          /\ pc' = "done"
     ELSE /\ result' = result
          /\ pc' = "precommit"
  /\ UNCHANGED <<calcVars, repoVars, batchVars, cfgVars, contribution, preCommitRepo, removeAttempts,
                 functionalityMatched, hintsGiven, attempts, lastPrompt, sessionId,
                 technicalComparison, oracleFailed, agentFailedAt, oracleCalls,
                 hintCalls, lastHintContent>>

\* lines 263-281: createPreCommitRepository returns or throws; on success the
\* loop is entered and the first round calls the agent
PreCommitRepositoryCreated ==
  /\ pc = "precommit"
  /\ \E created \in BOOLEAN :
       IF created
       THEN /\ preCommitRepo' = "present"
            /\ LoopHead(FALSE, 0, << >>, sessionId)
            /\ result' = result
       ELSE /\ preCommitRepo' = preCommitRepo
            /\ result' = NullScore
            /\ pc' = "done"
            /\ UNCHANGED <<attempts, lastPrompt>>
  /\ UNCHANGED <<calcVars, repoVars, batchVars, cfgVars, contribution, category, removeAttempts,
                 functionalityMatched, hintsGiven, sessionId,
                 technicalComparison, oracleFailed, agentFailedAt, oracleCalls,
                 hintCalls, lastHintContent>>

\* lines 284-303 and 336-339: runClaudeCode settles; a failure or an
\* exception leaves the loop, a success calls the oracle
AgentReturns ==
  /\ pc = "agent"
  /\ \E out \in RunnerOutcomes, captured \in BOOLEAN :
       \* messages carry a session id from the first round on or never
       /\ (attempts > 1 /\ sessionId = 0) => ~captured
       /\ sessionId' = IF sessionId = 0 /\ captured THEN attempts ELSE sessionId
       /\ agentFailedAt' = IF out = "throw" \/ ~ExecuteClaudeCode(out).success
                            THEN attempts ELSE agentFailedAt
       /\ IF out = "throw" /\ ~LoopCatchesErrors
          THEN /\ pc' = "done"
               /\ result' = ThrewError
               /\ oracleCalls' = oracleCalls
          ELSE IF out = "throw" \/ ~AgentSucceeded(ExecuteClaudeCode(out))
          THEN /\ pc' = "cleanup"
               /\ result' = result
               /\ oracleCalls' = oracleCalls
          ELSE /\ pc' = "oracle"
               /\ result' = result
               /\ oracleCalls' = oracleCalls + 1
  /\ UNCHANGED <<calcVars, repoVars, batchVars, cfgVars, contribution, category, preCommitRepo, removeAttempts,
                 functionalityMatched, hintsGiven, attempts, lastPrompt,
                 technicalComparison, oracleFailed, hintCalls, lastHintContent>>

\* lines 299-329: the oracle settles (its failure is the fallback verdict);
\* a match ends the loop, otherwise generateTechnicalHint is called, which
\* returns null at once when there are no factors
OracleReturns ==
  /\ pc = "oracle"
  /\ \E apiOk \in BOOLEAN, parsed \in ParsedComparisons :
       LET tc == CompareTechnicalContributions(apiOk, parsed) IN
       /\ technicalComparison' = tc
       /\ oracleFailed' = ~apiOk
       /\ IF IsMatch(tc, similarityThreshold)
          THEN /\ functionalityMatched' = TRUE
               /\ hintCalls' = hintCalls
               /\ LoopHead(TRUE, attempts, hintsGiven, sessionId)
          ELSE /\ functionalityMatched' = functionalityMatched
               /\ hintCalls' = hintCalls + 1
               /\ IF GenerateTechnicalHint(tc.factorsThatMakeABetter,
                                           Len(hintsGiven) + 1, TRUE) = NullHint
                  THEN /\ pc' = "cleanup"
                       /\ UNCHANGED <<attempts, lastPrompt>>
                  ELSE /\ pc' = "hint"
                       /\ UNCHANGED <<attempts, lastPrompt>>
  /\ UNCHANGED <<calcVars, repoVars, batchVars, cfgVars, contribution, category, preCommitRepo, removeAttempts,
                 hintsGiven, sessionId, agentFailedAt, oracleCalls,
                 lastHintContent, result>>

\* lines 317-334: the hint service settles; the hint is appended and the loop
\* condition is evaluated again
HintReturns ==
  /\ pc = "hint"
  /\ \E apiOk \in BOOLEAN :
       LET nextHint == GenerateTechnicalHint(technicalComparison.factorsThatMakeABetter,
                                             Len(hintsGiven) + 1, apiOk)
           pushed   == Append(hintsGiven, [level |-> nextHint.level, type |-> nextHint.type])
       IN
       /\ hintsGiven' = pushed
       /\ lastHintContent' = nextHint.content
       /\ LoopHead(functionalityMatched, attempts, pushed, sessionId)
  /\ technicalComparison' = NoComparison
  /\ oracleFailed' = FALSE
  /\ UNCHANGED <<calcVars, repoVars, batchVars, cfgVars, contribution, category, preCommitRepo, removeAttempts,
                 functionalityMatched, sessionId, agentFailedAt, oracleCalls,
                 hintCalls, result>>

\* an exit that forgets the removal
RemovalSkipped(n) == n

\* lines 346-351: fs.remove(preCommitRepoPath) is called once after the loop
RemovePreCommitRepository(n) == n + 1

\* lines 342-387: session reset, removal of the pre-commit repository
\* (a failure is logged), scoring, return
FinishAnalysis ==
  /\ pc = "cleanup"
  /\ sessionId' = 0
  /\ \E removed \in BOOLEAN :
       preCommitRepo' = IF removed THEN "removed" ELSE preCommitRepo
  /\ removeAttempts' = RemovePreCommitRepository(removeAttempts)
  /\ result' = CreateContributionScore(
                 LoopComplexityScore(contribution, category, hintsGiven, attempts,
                                     functionalityMatched),
                 Len(hintsGiven), attempts)
  /\ pc' = "done"
  /\ technicalComparison' = NoComparison
  /\ oracleFailed' = FALSE
  /\ UNCHANGED <<calcVars, repoVars, batchVars, cfgVars, contribution, category, functionalityMatched, hintsGiven,
                 attempts, lastPrompt, agentFailedAt, oracleCalls, hintCalls,
                 lastHintContent>>

----------------------------------------------------------------------------
(* ScoringEngine.calculateComplexityScore applied to drawn arguments        *)

\* bounds of the scoring arguments
MaxScoredHints == 10

MaxScoredAttempts == 10

\* what the scoring engine reads from a contribution
ScoredContributions ==
  [linesChanged : {0, 5, 80, 250}, filesModified : {1, 4}, commitCount : {1, 7},
   patternWeight : {0, 300}]

HintTypes == {"general", "specific", "technical"}

\* hint lists of every length: hints that share one level and one type, and
\* the lists the analysis loops build, hint i of level i with the type of
\* its level
ScoredHintLists ==
  { [i \in 1 .. n |-> [level |-> l, type |-> ty]] :
      n \in 0 .. MaxScoredHints, l \in {1, 5}, ty \in HintTypes }
  \cup { [i \in 1 .. n |-> [level |-> i, type |-> HintTypeForLevel(i)]] :
           n \in 0 .. MaxScoredHints }

NotComputed == -1

CfgIdle ==
  /\ maxHintsPerAnalysis = 10
  /\ similarityThreshold = 85

ScoreIdle ==
  /\ scoreInput = [contribution |-> [linesChanged |-> 0, filesModified |-> 1,
                                     commitCount |-> 1, patternWeight |-> 0],
                   hints |-> << >>, attempts |-> 1]
  /\ scoreOutput = [m \in BOOLEAN |-> NotComputed]

ScoreStart ==
  /\ scoreInput \in [contribution : ScoredContributions, hints : ScoredHintLists,
                     attempts : 1 .. MaxScoredAttempts]
  /\ scoreOutput = [m \in BOOLEAN |-> NotComputed]

----------------------------------------------------------------------------
(* DeveloperAnalyzer.calculateCombinedScore applied to drawn arguments.     *)
(* Scores on the 0..10 scale are held in hundredths, averageScore (0..100)  *)
(* in tenths, weights as a fraction num/den, rounded weights in hundredths, *)
(* the combined score in tenths, confidence in tenths.                      *)

\* bound of the activity counts of a DeveloperDiscovery
MaxActivity == 5

\* what performTechnicalAnalysis returned:
\*   "null"       it failed
\*   "no-results" no repository was analysed (summary is null)
\*   "no-scores"  repositories analysed, no scored contribution
\*   "scored"     summary.averageScore is the mean of the scored contributions
TechnicalAnalyses ==
  [kind : {"null", "no-results", "no-scores"}, averageScore : {0}]
    \cup [kind : {"scored"}, averageScore : {0, 260, 637, 1000, 1040}]

\* what the social analysis returned after filterSocialAnalysisForDeveloper:
\*   "null"    it failed
\*   "empty"   developerAnalyses holds no entry for the developer
\*   "present" developerAnalyses[0].overallScore is the developer's score
SocialAnalyses ==
  [kind : {"null", "empty"}, overallScore : {0}]
    \cup [kind : {"present"}, overallScore : {0, 400, 720, 1000}]

Discoveries ==
  [totalCommits : 0 .. MaxActivity, totalIssues : 0 .. MaxActivity,
   totalPullRequests : {0, 1}, totalReviews : {0, 1}, totalComments : {0, 1}]

SocialActivity(discovery) ==
    discovery.totalIssues + discovery.totalPullRequests
  + discovery.totalReviews + discovery.totalComments

\* lines 262-273: technicalScore.overall
TechnicalOverall(technicalAnalysis) ==
  IF technicalAnalysis.kind \in {"no-scores", "scored"}
  THEN Min(technicalAnalysis.averageScore, 1000)
  ELSE 0

\* lines 276-285: socialScore.overall
SocialOverall(socialAnalysis) ==
  IF socialAnalysis.kind = "present" THEN socialAnalysis.overallScore ELSE 0

\* line 288
HasCodeData(technicalAnalysis, discovery) ==
  technicalAnalysis.kind # "null" /\ discovery.totalCommits > 0

\* lines 289-290
HasSocialData(socialAnalysis, discovery) ==
  socialAnalysis.kind # "null" /\ SocialActivity(discovery) > 0

\* a confidence that starts at 0 and is left there when no data exists
ConfidenceWithoutFloor(hasCodeData, hasSocialData) ==
  IF hasCodeData /\ hasSocialData THEN 9
  ELSE IF hasCodeData \/ hasSocialData THEN 6
  ELSE 0

\* lines 292-295
Confidence(hasCodeData, hasSocialData) ==
  IF hasCodeData /\ hasSocialData THEN 9
  ELSE IF hasCodeData \/ hasSocialData THEN 6
  ELSE 1

\* lines 298-321: technicalWeight as a fraction; socialWeight is 1 minus it
TechnicalWeight(hasCodeData, hasSocialData, discovery) ==
  LET codeActivity == discovery.totalCommits
      total        == codeActivity + SocialActivity(discovery)
  IN
  IF hasCodeData /\ ~hasSocialData THEN [num |-> 1, den |-> 1]
  ELSE IF ~hasCodeData /\ hasSocialData THEN [num |-> 0, den |-> 1]
  ELSE IF hasCodeData /\ hasSocialData /\ total > 0
  THEN IF 5 * codeActivity < total THEN [num |-> 1, den |-> 5]
       ELSE IF 5 * codeActivity > 4 * total THEN [num |-> 4, den |-> 5]
       ELSE [num |-> codeActivity, den |-> total]
  ELSE [num |-> 1, den |-> 2]

\* Math.round(w * 100) / 100 of the weight num/den, in hundredths
RoundWeight(num, den) == (200 * num + den) \div (2 * den)

\* Math.round(v * 10) / 10 of a score held in hundredths, in tenths
RoundToTenth(v) == (v + 5) \div 10

\* lines 252-340
CalculateCombinedScore(technicalAnalysis, socialAnalysis, discovery) ==
  LET hasCodeData   == HasCodeData(technicalAnalysis, discovery)
      hasSocialData == HasSocialData(socialAnalysis, discovery)
      w             == TechnicalWeight(hasCodeData, hasSocialData, discovery)
      weighted      ==   TechnicalOverall(technicalAnalysis) * w.num
                       + SocialOverall(socialAnalysis) * (w.den - w.num)
  IN
  [computed        |-> TRUE,
   technical       |-> TechnicalOverall(technicalAnalysis),
   social          |-> SocialOverall(socialAnalysis),
   score           |-> (2 * weighted + 10 * w.den) \div (20 * w.den),
   confidence      |-> Confidence(hasCodeData, hasSocialData),
   technicalWeight |-> RoundWeight(w.num, w.den),
   socialWeight    |-> RoundWeight(w.den - w.num, w.den)]

NoDeveloperScore ==
  [computed |-> FALSE, technical |-> 0, social |-> 0, score |-> 0, confidence |-> 0,
   technicalWeight |-> 0, socialWeight |-> 0]

CombineIdle ==
  /\ combineInput = [technicalAnalysis |-> [kind |-> "null", averageScore |-> 0],
                     socialAnalysis |-> [kind |-> "null", overallScore |-> 0],
                     discovery |-> [totalCommits |-> 0, totalIssues |-> 0,
                                    totalPullRequests |-> 0, totalReviews |-> 0,
                                    totalComments |-> 0]]
  /\ combineOutput = NoDeveloperScore

CombineStart ==
  /\ combineInput \in [technicalAnalysis : TechnicalAnalyses,
                       socialAnalysis : SocialAnalyses, discovery : Discoveries]
  /\ combineOutput = NoDeveloperScore

----------------------------------------------------------------------------
(* DeveloperAnalyzer.performTechnicalAnalysis, parallel branch: every       *)
(* repository is analysed through the one GitContributionScorer, whose one  *)
(* GitAnalyzer holds repoPath and the git handle.  A temporary directory is *)
(* named by the repository it was created for.                              *)

\* topRepos = codeRepos.sort(...).slice(0, 3)
MaxRepositories == 3

Repositories == 1 .. MaxRepositories

RepoIdle ==
  /\ numRepos = 1
  /\ repoPc = [r \in Repositories |-> "idle"]
  /\ tempDirs = [d \in Repositories |-> "none"]
  /\ repoPath = 0
  /\ git = 0
  /\ readFrom = [r \in Repositories |-> 0]
  /\ removedBy = [d \in Repositories |-> 0]

RepoStart ==
  /\ numRepos \in 1 .. MaxRepositories
  /\ repoPc = [r \in Repositories |-> "idle"]
  /\ tempDirs = [d \in Repositories |-> "none"]
  /\ repoPath = 0
  /\ git = 0
  /\ readFrom = [r \in Repositories |-> 0]
  /\ removedBy = [d \in Repositories |-> 0]

\* GitAnalyzer.cleanup() called by the analysis of repository r: the
\* directory this.repoPath names is removed if it exists (a failure of the
\* removal is only warned about)
CleanupRepoPath(r) ==
  IF repoPath # 0 /\ tempDirs[repoPath] = "present"
  THEN \E removed \in BOOLEAN :
         IF removed
         THEN /\ tempDirs' = [tempDirs EXCEPT ![repoPath] = "removed"]
              /\ removedBy' = [removedBy EXCEPT ![repoPath] = r]
         ELSE UNCHANGED <<tempDirs, removedBy>>
  ELSE UNCHANGED <<tempDirs, removedBy>>

\* topRepos.map(repo => analyzeRepo(repo)): each analysis runs, in order, up
\* to its first await on I/O, git.clone; by then cloneRepository has created
\* the temporary directory and stored its name in this.repoPath
StartRepositoryAnalyses ==
  /\ \A r \in Repositories : repoPc[r] = "idle"
  /\ repoPc' = [r \in Repositories |-> IF r <= numRepos THEN "cloning" ELSE "idle"]
  /\ tempDirs' = [d \in Repositories |-> IF d <= numRepos THEN "present" ELSE "none"]
  /\ repoPath' = numRepos
  /\ UNCHANGED <<cfgVars, loopVars, batchVars, calcVars, numRepos, git, readFrom, removedBy>>

\* cloneRepository lines 27-38: git.clone settles; on success the handle is
\* bound to this.repoPath as it is now, on failure analyzeContributions
\* catches, cleans up and rethrows
CloneSettles(r) ==
  /\ repoPc[r] = "cloning"
  /\ \E cloned \in BOOLEAN :
       IF cloned
       THEN /\ git' = repoPath
            /\ repoPc' = [repoPc EXCEPT ![r] = "list"]
            /\ UNCHANGED <<tempDirs, removedBy>>
       ELSE /\ git' = git
            /\ repoPc' = [repoPc EXCEPT ![r] = "done"]
            /\ CleanupRepoPath(r)
  /\ UNCHANGED <<cfgVars, loopVars, batchVars, calcVars, numRepos, repoPath, readFrom>>

\* getRecentContributions settles: it read the log through this.git.  An
\* error is caught with a cleanup; no contribution returns the empty report
\* at once; otherwise the contributions are analysed
ContributionsListed(r) ==
  /\ repoPc[r] = "list"
  /\ readFrom' = [readFrom EXCEPT ![r] = git]
  /\ \E found \in {"error", "none", "some"} :
       /\ (git = 0 \/ tempDirs[git] # "present") => found = "error"
       /\ CASE found = "error" -> /\ repoPc' = [repoPc EXCEPT ![r] = "done"]
                                  /\ CleanupRepoPath(r)
            [] found = "none"  -> /\ repoPc' = [repoPc EXCEPT ![r] = "done"]
                                  /\ UNCHANGED <<tempDirs, removedBy>>
            [] found = "some"  -> /\ repoPc' = [repoPc EXCEPT ![r] = "analyzing"]
                                  /\ UNCHANGED <<tempDirs, removedBy>>
  /\ UNCHANGED <<cfgVars, loopVars, batchVars, calcVars, numRepos, repoPath, git>>

\* the contributions of repository r have been analysed, or the analysis
\* threw: gitAnalyzer.cleanup() is called and analyzeContributions settles
RepositoryAnalysed(r) ==
  /\ repoPc[r] = "analyzing"
  /\ repoPc' = [repoPc EXCEPT ![r] = "done"]
  /\ CleanupRepoPath(r)
  /\ UNCHANGED <<cfgVars, loopVars, batchVars, calcVars, numRepos, repoPath, git, readFrom>>

----------------------------------------------------------------------------
(* GitContributionScorer of core/contribution-analyzer.ts, with the         *)
(* ClaudeRunner that checks the pre-commit state out in the shared clone    *)

\* bounds of the batch model
NumContributions == 3

MaxConcurrency == 2

Tasks == 1 .. NumContributions

\* the contribution at index i of a repository whose documentation-only
\* commit (if any) is at index d
BatchContribution(i, d) ==
  LET z == IF i % 2 = 1
           THEN [linesChanged |-> 20,  filesModified |-> 2, commitCount |-> 2, patternWeight |-> 30]
           ELSE [linesChanged |-> 250, filesModified |-> 4, commitCount |-> 7, patternWeight |-> 300]
  IN [linesChanged |-> z.linesChanged, filesModified |-> z.filesModified,
      commitCount |-> z.commitCount, patternWeight |-> z.patternWeight,
      hasDocumentationChanges |-> (i = d), hasLogicChanges |-> (i # d),
      hasConfigChanges |-> FALSE]

\* categorizeContribution, lines 220-249
CategorizeBatchContribution(c) ==
  IF c.hasDocumentationChanges /\ ~c.hasLogicChanges /\ ~c.hasConfigChanges
  THEN "documentation-only"
  ELSE IF c.hasLogicChanges THEN "logic"
  ELSE IF c.hasConfigChanges THEN "configuration"
  ELSE "other"

\* line 147, with options {useHints: true, maxHints: config.maxHintsPerAnalysis}
BatchMaxAttempts == maxHintsPerAnalysis + 1

\* line 48
ParallelPath == parallelOptions.parallel /\ parallelOptions.concurrency > 1

\* line 64 (computed, then never read)
BatchSize == Min(parallelOptions.concurrency, numFound)

CreateFallbackHint(gaps, hintLevel) ==
  [content |-> IF Len(gaps) > 0 THEN "template:" \o gaps[1] ELSE "template:generic",
   level   |-> hintLevel,
   type    |-> HintTypeForLevel(hintLevel)]

\* generateProgressiveHint; apiOk = FALSE: the hint service call threw
GenerateProgressiveHint(gaps, hintLevel, apiOk) ==
  IF apiOk THEN ParseHint(hintLevel) ELSE CreateFallbackHint(gaps, hintLevel)

\* a report that keeps the order it was given
KeepInputOrder(scores) == scores

RECURSIVE InsertByScore(_, _)
InsertByScore(sorted, e) ==
  IF sorted = << >> THEN <<e>>
  ELSE IF Head(sorted).score >= e.score
       THEN <<Head(sorted)>> \o InsertByScore(Tail(sorted), e)
       ELSE <<e>> \o sorted

\* developerScores.sort((a, b) => b.score - a.score): stable, descending
RECURSIVE SortByScoreDescending(_)
SortByScoreDescending(scores) ==
  IF scores = << >> THEN << >>
  ELSE InsertByScore(SortByScoreDescending(SubSeq(scores, 1, Len(scores) - 1)),
                     scores[Len(scores)])

\* generateDetailedReport: the developerScores of the report
GenerateDetailedReport(scores) == SortByScoreDescending(scores)

Pending == [kind |-> "pending", score |-> 0]

ReturnedNull == [kind |-> "null", score |-> 0]

Threw == [kind |-> "threw", score |-> 0]

Returned(score) == [kind |-> "score", score |-> score]

\* a per-contribution handler that lets the task's error escape in the
\* sequential loop
TaskErrorEscapesSequentialLoop == ParallelPath

\* lines 57-60 (parallel wrapper) and 84-86 (sequential loop): the error of
\* one contribution is logged, the batch goes on
TaskErrorCaught == TRUE

\* results of Promise.allSettled filtered as in lines 69-73, in input order
RECURSIVE CollectScores(_)
CollectScores(n) ==
  IF n = 0 THEN << >>
  ELSE IF taskOutcome[n].kind = "score"
       THEN Append(CollectScores(n - 1), [task |-> n, score |-> taskOutcome[n].score])
       ELSE CollectScores(n - 1)

BatchIdle ==
  /\ parallelOptions = [parallel |-> FALSE, concurrency |-> 1]
  /\ numFound = 0
  /\ docOnlyAt = 0
  /\ batchPc = "idle"
  /\ clone = "none"
  /\ cleanupCalls = 0
  /\ taskPc = [t \in Tasks |-> "idle"]
  /\ taskAttempts = [t \in Tasks |-> 0]
  /\ taskHints = [t \in Tasks |-> << >>]
  /\ taskResume = [t \in Tasks |-> 0]
  /\ taskOutcome = [t \in Tasks |-> Pending]
  /\ repoHead = 0
  /\ sharedSessionId = 0
  /\ developerScores = << >>
  /\ report = << >>

LoopIdle ==
  /\ contribution = [linesChanged |-> 0, filesModified |-> 0, commitCount |-> 0,
                     patternWeight |-> 0, hasLogicChanges |-> FALSE,
                     hasDocChanges |-> FALSE]
  /\ pc = "idle"
  /\ category = NoCategory
  /\ preCommitRepo = "absent"
  /\ removeAttempts = 0
  /\ functionalityMatched = FALSE
  /\ hintsGiven = << >>
  /\ attempts = 0
  /\ lastPrompt = NoPrompt
  /\ sessionId = 0
  /\ technicalComparison = NoComparison
  /\ oracleFailed = FALSE
  /\ agentFailedAt = 0
  /\ oracleCalls = 0
  /\ hintCalls = 0
  /\ lastHintContent = "none"
  /\ result = NotReturned

BatchStart ==
  /\ maxHintsPerAnalysis = MinHintsAllowed
  /\ similarityThreshold = 85
  /\ ValidConfig(maxHintsPerAnalysis, similarityThreshold)
  /\ parallelOptions \in [parallel : BOOLEAN, concurrency : {1, MaxConcurrency}]
  /\ numFound \in 0 .. NumContributions
  /\ docOnlyAt \in 0 .. numFound
  /\ batchPc = "clone"
  /\ clone = "none"
  /\ cleanupCalls = 0
  /\ taskPc = [t \in Tasks |-> "idle"]
  /\ taskAttempts = [t \in Tasks |-> 0]
  /\ taskHints = [t \in Tasks |-> << >>]
  /\ taskResume = [t \in Tasks |-> 0]
  /\ taskOutcome = [t \in Tasks |-> Pending]
  /\ repoHead = 0
  /\ sharedSessionId = 0
  /\ developerScores = << >>
  /\ report = << >>

\* gitAnalyzer.cleanup(): removes the clone if its directory exists
CleanupClone ==
  /\ cleanupCalls' = cleanupCalls + 1
  /\ clone' = IF clone = "present" THEN "removed" ELSE clone

\* lines 29-31, 93-96: cloneRepository settles
CloneRepository ==
  /\ batchPc = "clone"
  /\ \E cloned \in BOOLEAN :
       IF cloned
       THEN /\ clone' = "present"
            /\ batchPc' = "list"
            /\ cleanupCalls' = cleanupCalls
       ELSE /\ batchPc' = "threw"
            /\ CleanupClone
  /\ UNCHANGED <<calcVars, repoVars, cfgVars, loopVars, parallelOptions, numFound, docOnlyAt, taskVars,
                 repoHead, sharedSessionId, developerScores, report>>

\* lines 33-66, 76-80: getRecentContributions settles; with no contribution
\* the empty report is returned, otherwise the parallel path starts every
\* analysis at once (map) and the sequential path starts the first one
ListContributions ==
  /\ batchPc = "list"
  /\ \E listed \in BOOLEAN :
       IF ~listed
       THEN /\ batchPc' = "threw"
            /\ CleanupClone
            /\ UNCHANGED <<taskPc, report>>
       ELSE IF numFound = 0
       THEN /\ batchPc' = "returned"
            /\ report' = GenerateDetailedReport(<< >>)
            /\ UNCHANGED <<taskPc, clone, cleanupCalls>>
       ELSE /\ batchPc' = "running"
            /\ taskPc' = [t \in Tasks |->
                            IF ParallelPath
                            THEN (IF t <= numFound THEN "extract" ELSE "idle")
                            ELSE (IF t = 1 THEN "extract" ELSE "idle")]
            /\ UNCHANGED <<report, clone, cleanupCalls>>
  /\ UNCHANGED <<calcVars, repoVars, cfgVars, loopVars, parallelOptions, numFound, docOnlyAt,
                 taskAttempts, taskHints, taskResume, taskOutcome,
                 repoHead, sharedSessionId, developerScores>>

\* the analysis of contribution t moves on: to its next await (npc), or it
\* returns / throws (outcome).  In the sequential loop the return pushes the
\* score and starts the next contribution; an error that is not caught ends
\* the batch through the outer catch (lines 93-96).
TaskMoves(t, npc, natt, nhints, nres, outcome) ==
  /\ taskAttempts' = [taskAttempts EXCEPT ![t] = natt]
  /\ taskHints' = [taskHints EXCEPT ![t] = nhints]
  /\ taskResume' = [taskResume EXCEPT ![t] = nres]
  /\ IF outcome.kind = "pending"
     THEN /\ taskPc' = [taskPc EXCEPT ![t] = npc]
          /\ UNCHANGED <<taskOutcome, developerScores, batchPc, clone, cleanupCalls>>
     ELSE /\ taskOutcome' = [taskOutcome EXCEPT ![t] = outcome]
          /\ IF outcome.kind = "threw" /\ ~TaskErrorCaught
             THEN /\ taskPc' = [taskPc EXCEPT ![t] = "done"]
                  /\ batchPc' = "threw"
                  /\ CleanupClone
                  /\ UNCHANGED developerScores
             ELSE /\ UNCHANGED <<batchPc, clone, cleanupCalls>>
                  /\ IF ParallelPath
                     THEN /\ taskPc' = [taskPc EXCEPT ![t] = "done"]
                          /\ UNCHANGED developerScores
                     ELSE /\ taskPc' = [u \in Tasks |->
                                          IF u = t THEN "done"
                                          ELSE IF u = t + 1 /\ u <= numFound THEN "extract"
                                          ELSE taskPc[u]]
                          /\ developerScores' =
                               IF outcome.kind = "score"
                               THEN Append(developerScores, [task |-> t, score |-> outcome.score])
                               ELSE developerScores

\* lines 130-163: business purpose extracted, contribution categorized;
\* documentation-only returns null, otherwise the first attempt calls
\* runClaudeCode, which starts checking out the pre-commit state
BusinessPurposeExtracted(t) ==
  /\ batchPc = "running"
  /\ taskPc[t] = "extract"
  /\ IF CategorizeBatchContribution(BatchContribution(t, docOnlyAt)) = "documentation-only"
     THEN TaskMoves(t, "done", 0, << >>, 0, ReturnedNull)
     ELSE TaskMoves(t, "checkout", 1, << >>, 0, Pending)
  /\ UNCHANGED <<calcVars, repoVars, cfgVars, loopVars, parallelOptions, numFound, docOnlyAt,
                 repoHead, sharedSessionId, report>>

\* executeClaudeCode lines 213-217: a message of the running query carries a
\* session id and the runner has none yet
SessionCaptured(t) ==
  /\ batchPc = "running"
  /\ taskPc[t] = "query"
  /\ sharedSessionId = 0
  /\ sharedSessionId' = t
  /\ UNCHANGED <<calcVars, repoVars, cfgVars, loopVars, parallelOptions, numFound, docOnlyAt, batchPc,
                 clone, cleanupCalls, taskVars, repoHead, developerScores, report>>

\* lines 192-213 of analyzeContribution: the attempt failed.  When attempts
\* remain the hint is generated (an await that touches nothing shared), it
\* is pushed and the next attempt calls runClaudeCode; otherwise the loop
\* ends and null is returned
AttemptFailed(t) ==
  IF taskAttempts[t] < BatchMaxAttempts
  THEN \E apiOk \in BOOLEAN :
         LET hint == GenerateProgressiveHint(<<"Implementation failed">>,
                                             Len(taskHints[t]) + 1, apiOk) IN
         TaskMoves(t, "checkout", taskAttempts[t] + 1,
                   Append(taskHints[t], [level |-> hint.level, type |-> hint.type]),
                   0, Pending)
  ELSE TaskMoves(t, "done", 0, << >>, 0, ReturnedNull)

\* runClaudeCode lines 24-53, checkoutPreCommitState: git checkout of the
\* pre-commit state in the shared clone settles; then the prompt is chosen
\* and the query starts, resuming the runner's session when there is one and
\* hints exist
CheckoutSettles(t) ==
  /\ batchPc = "running"
  /\ taskPc[t] = "checkout"
  /\ \E checkedOut \in BOOLEAN :
       IF checkedOut
       THEN /\ repoHead' = t
            /\ LET isResumingSession == sharedSessionId # 0 /\ Len(taskHints[t]) > 0 IN
               TaskMoves(t, "query", taskAttempts[t], taskHints[t],
                         IF isResumingSession THEN sharedSessionId ELSE 0, Pending)
       ELSE /\ repoHead' = repoHead
            /\ AttemptFailed(t)
  /\ UNCHANGED <<calcVars, repoVars, cfgVars, loopVars, parallelOptions, numFound, docOnlyAt,
                 sharedSessionId, report>>

\* executeClaudeCode lines 206-270: the query ends; on a success result the
\* generated diff is extracted from the working directory
QuerySettles(t) ==
  /\ batchPc = "running"
  /\ taskPc[t] = "query"
  /\ \E out \in SdkOutcomes \ {"no_changes"} :
       IF ExecuteClaudeCode(out).success
       THEN /\ sharedSessionId # 0
            /\ TaskMoves(t, "extractDiff", taskAttempts[t], taskHints[t], 0, Pending)
       ELSE AttemptFailed(t)
  /\ UNCHANGED <<calcVars, repoVars, cfgVars, loopVars, parallelOptions, numFound, docOnlyAt,
                 repoHead, sharedSessionId, report>>

\* the comparisons the batch distinguishes: it reads isEquivalent only
BatchComparisons ==
  {p \in ParsedComparisons : p.similarityScore = 50 /\ p.factorsThatMakeABetter = << >>}

\* extractGeneratedDiff lines 273-349 and analyzeContribution lines 165-208:
\* the diff of the working directory is read; no change is an error, i.e. a
\* failed attempt.  With a diff the comparison is awaited (it touches
\* nothing shared) and the score is computed and returned; an exception in
\* the round is rethrown on the last attempt and otherwise swallowed, the
\* loop going to the next attempt without a hint
DiffExtracted(t) ==
  /\ batchPc = "running"
  /\ taskPc[t] = "extractDiff"
  /\ \E outcome \in {"no_changes", "exception", "diff"} :
       IF outcome = "no_changes"
       THEN AttemptFailed(t)
       ELSE IF outcome = "exception"
       THEN IF taskAttempts[t] >= BatchMaxAttempts
            THEN TaskMoves(t, "done", 0, << >>, 0, Threw)
            ELSE TaskMoves(t, "checkout", taskAttempts[t] + 1, taskHints[t], 0, Pending)
       ELSE \E apiOk \in BOOLEAN, parsed \in BatchComparisons :
              LET comparison == CompareTechnicalContributions(apiOk, parsed) IN
              TaskMoves(t, "done", 0, << >>, 0,
                        Returned(CalculateComplexityScore(
                                   BatchContribution(t, docOnlyAt), Len(taskHints[t]),
                                   taskHints[t], taskAttempts[t], comparison.isEquivalent)))
  /\ UNCHANGED <<calcVars, repoVars, cfgVars, loopVars, parallelOptions, numFound, docOnlyAt,
                 repoHead, sharedSessionId, report>>

\* lines 67-73, 88-92: every analysis has settled; the scores are collected,
\* the clone is cleaned up and the report is generated
FinishBatch ==
  /\ batchPc = "running"
  /\ \A t \in 1 .. numFound : taskPc[t] = "done"
  /\ developerScores' = IF ParallelPath THEN CollectScores(numFound) ELSE developerScores
  /\ CleanupClone
  /\ report' = GenerateDetailedReport(developerScores')
  /\ batchPc' = "returned"
  /\ UNCHANGED <<calcVars, repoVars, cfgVars, loopVars, parallelOptions, numFound, docOnlyAt, taskVars,
                 repoHead, sharedSessionId>>

BatchInit == BatchStart /\ LoopIdle /\ ScoreIdle /\ CombineIdle /\ RepoIdle

BatchNext ==
  \/ CloneRepository
  \/ ListContributions
  \/ \E t \in Tasks : BusinessPurposeExtracted(t)
  \/ \E t \in Tasks : CheckoutSettles(t)
  \/ \E t \in Tasks : SessionCaptured(t)
  \/ \E t \in Tasks : QuerySettles(t)
  \/ \E t \in Tasks : DiffExtracted(t)
  \/ FinishBatch

BatchSpec == BatchInit /\ [][BatchNext]_vars

Init == LoopStart /\ BatchIdle /\ ScoreIdle /\ CombineIdle /\ RepoIdle

Next ==
  \/ Categorize
  \/ PreCommitRepositoryCreated
  \/ AgentReturns
  \/ OracleReturns
  \/ HintReturns
  \/ FinishAnalysis

Spec == Init /\ [][Next]_vars

RepoInit == RepoStart /\ CfgIdle /\ LoopIdle /\ BatchIdle /\ ScoreIdle /\ CombineIdle

RepoNext ==
  \/ StartRepositoryAnalyses
  \/ \E r \in Repositories : CloneSettles(r)
  \/ \E r \in Repositories : ContributionsListed(r)
  \/ \E r \in Repositories : RepositoryAnalysed(r)

RepoSpec == RepoInit /\ [][RepoNext]_vars

----------------------------------------------------------------------------
(* Properties of the attempt loop (Spec) *)

\* C4: in every state of the attempt loop the number of hints issued is at
\* most attempts - 1 (a hint follows a failed attempt and is followed by a
\* further attempt).
HintsAtMostAttemptsMinusOne ==
  attempts >= 1 => Len(hintsGiven) <= attempts - 1

\* C5: the score of every returned ContributionScore lies in [0, 100].
ReturnedScoreWithinRange ==
  result.kind = "score" => (0 <= result.score /\ result.score <= 100000)

\* C6: every hint issued has a level in 1..5, whatever maxHintsPerAnalysis
\* validateConfig accepted.
HintLevelsCappedAtFive ==
  \A i \in DOMAIN hintsGiven : hintsGiven[i].level \in 1 .. 5

\* C7: once an agent invocation has failed (success = false, timeout) or
\* thrown in round r, the loop is over: the function is cleaning up or done,
\* attempts stays r, the oracle and the hint service were called only in the
\* r - 1 earlier rounds, and the outcome is unmatched.
AgentFailureEndsLoop ==
  agentFailedAt # 0 =>
    /\ pc \in {"cleanup", "done"}
    /\ ~functionalityMatched
    /\ attempts = agentFailedAt
    /\ oracleCalls = agentFailedAt - 1
    /\ hintCalls = agentFailedAt - 1
    /\ Len(hintsGiven) = agentFailedAt - 1
    /\ (pc = "done" => result.kind = "score" /\ result.attempts = agentFailedAt)

\* C7 witness: the agent failed in a hint round and the task returned
AgentFailedInHintRoundAndReturned ==
  /\ pc = "done"
  /\ agentFailedAt >= 2
  /\ result.kind = "score"
  /\ result.hintsNeeded = agentFailedAt - 1

\* C8: a round whose oracle call failed is never treated as matched, for
\* every similarityThreshold validateConfig accepts.
FailedOracleRoundNeverMatched ==
  ~(oracleFailed /\ functionalityMatched)

VerdictIsMatch(tc) == tc.isEquivalent \/ tc.similarityScore >= similarityThreshold

\* C15: a round ends the loop matched exactly when its verdict is equivalent
\* or its similarity reaches the threshold; after a matched round no hint is
\* generated and the agent is not invoked again; functionalityMatched changes
\* in no other step.
MatchedOnlyByVerdict ==
  [][ /\ pc = "oracle" => (functionalityMatched' <=> VerdictIsMatch(technicalComparison'))
      /\ pc # "oracle" => functionalityMatched' = functionalityMatched
      /\ functionalityMatched' =>
           /\ pc' \in {"cleanup", "done"}
           /\ hintCalls' = hintCalls
           /\ hintsGiven' = hintsGiven
           /\ attempts' = attempts ]_vars

\* a hint round matched on similarity alone
MatchedBySimilarityInHintRound ==
  /\ pc = "cleanup"
  /\ functionalityMatched
  /\ ~technicalComparison.isEquivalent
  /\ attempts >= 2
  /\ Len(hintsGiven) = attempts - 1

\* C16: a round whose verdict is not a match and lists no factor in favour
\* of the human contribution ends the loop unmatched: no hint is appended and
\* the agent is not invoked again.
NoFactorsEndsLoopUnmatched ==
  [][ /\ ( /\ pc = "oracle"
           /\ ~VerdictIsMatch(technicalComparison')
           /\ technicalComparison'.factorsThatMakeABetter = << >> ) =>
           /\ pc' = "cleanup"
           /\ ~functionalityMatched'
           /\ hintsGiven' = hintsGiven
           /\ attempts' = attempts
      /\ pc = "cleanup" =>
           /\ pc' = "done"
           /\ hintsGiven' = hintsGiven
           /\ attempts' = attempts
           /\ functionalityMatched' = functionalityMatched ]_vars

\* a hint round left because the verdict listed no factor
LoopLeftForLackOfFactors ==
  /\ pc = "cleanup"
  /\ ~functionalityMatched
  /\ agentFailedAt = 0
  /\ attempts >= 2
  /\ oracleCalls = attempts
  /\ hintCalls = attempts
  /\ Len(hintsGiven) = attempts - 1
  /\ technicalComparison.factorsThatMakeABetter = << >>

\* C17: the number of agent invocations never exceeds
\* config.maxHintsPerAnalysis.
AttemptsWithinBudget == attempts <= maxHintsPerAnalysis

\* the analysis returned after every permitted attempt was made
BudgetExhausted ==
  /\ pc = "done"
  /\ maxHintsPerAnalysis >= 2
  /\ attempts = maxHintsPerAnalysis
  /\ ~functionalityMatched
  /\ agentFailedAt = 0
  /\ Len(hintsGiven) = attempts

\* C18: once the pre-commit workspace exists no error escapes the analysis:
\* it returns one ContributionScore, and only when it is done.
AlwaysReturnsScoreOnceWorkspaceExists ==
  /\ result.kind # "threw"
  /\ (pc # "done") => result.kind = "pending"
  /\ (pc = "done" /\ preCommitRepo # "absent") =>
       (result.kind = "score" /\ removeAttempts = 1)

\* a score returned after the oracle and the hint service failed in one
\* round and the agent failed in the next
ScoreAfterServiceAndAgentFailures ==
  /\ pc = "done"
  /\ result.kind = "score"
  /\ agentFailedAt >= 2
  /\ lastHintContent = "template-general:" \o ApiErrorFactor

\* C19: a non-matching round with factors always appends exactly one hint at
\* the requested level, whose text comes from the service or is the template
\* of that level filled with the first factor.
HintAlwaysAppended ==
  [][ /\ ( /\ pc = "oracle"
           /\ ~VerdictIsMatch(technicalComparison')
           /\ technicalComparison'.factorsThatMakeABetter # << >> ) => pc' = "hint"
      /\ pc = "hint" =>
           /\ Len(hintsGiven') = Len(hintsGiven) + 1
           /\ SubSeq(hintsGiven', 1, Len(hintsGiven)) = hintsGiven
           /\ hintsGiven'[Len(hintsGiven')].level = Len(hintsGiven) + 1
           /\ lastHintContent' \in
                { "service",
                  "template-" \o HintTypeForLevel(Len(hintsGiven) + 1) \o ":"
                     \o technicalComparison.factorsThatMakeABetter[1] } ]_vars

\* the second hint came from the template, filled with the first of two
\* factors
FallbackHintFromFirstFactor ==
  /\ Len(hintsGiven) = 2
  /\ hintsGiven[2].level = 2
  /\ lastHintContent = "template-general:f2"

\* C20: the k-th hint of a task has level k, so the levels never decrease.
HintLevelsFollowPosition ==
  /\ \A i \in DOMAIN hintsGiven : hintsGiven[i].level = i
  /\ \A i, j \in DOMAIN hintsGiven : i <= j => hintsGiven[i].level <= hintsGiven[j].level

\* six hints given, the last of them from the template
SixHintsLastFromTemplate ==
  /\ Len(hintsGiven) >= 6
  /\ lastHintContent # "service"

----------------------------------------------------------------------------
(* The scoring engine and the score combination on drawn arguments          *)

\* calculateComplexityScore is called with the drawn arguments and one value
\* of functionalityMatched; hintsNeeded is hints.length, as both callers pass
ScoreCalculated ==
  /\ \E m \in BOOLEAN :
       /\ scoreOutput[m] = NotComputed
       /\ scoreOutput' = [scoreOutput EXCEPT ![m] =
            CalculateComplexityScore(scoreInput.contribution, Len(scoreInput.hints),
                                     scoreInput.hints, scoreInput.attempts, m)]
  /\ UNCHANGED <<cfgVars, loopVars, batchVars, repoVars, scoreInput, combineInput, combineOutput>>

ScoreInit == ScoreStart /\ CfgIdle /\ LoopIdle /\ BatchIdle /\ CombineIdle /\ RepoIdle

ScoreNext == ScoreCalculated

ScoreSpec == ScoreInit /\ [][ScoreNext]_vars

CombinedScoreCalculated ==
  /\ ~combineOutput.computed
  /\ combineOutput' = CalculateCombinedScore(combineInput.technicalAnalysis,
                                             combineInput.socialAnalysis,
                                             combineInput.discovery)
  /\ UNCHANGED <<cfgVars, loopVars, batchVars, repoVars, scoreInput, scoreOutput, combineInput>>

CombineInit == CombineStart /\ CfgIdle /\ LoopIdle /\ BatchIdle /\ ScoreIdle /\ RepoIdle

CombineNext == CombinedScoreCalculated

CombineSpec == CombineInit /\ [][CombineNext]_vars

\* C11: unmatched, attempts = 10, ten hints of level 5 and type 'technical':
\* the score is exactly 100 for every contribution of base complexity >= 5.
TenLevelFiveTechnicalHints == [i \in 1 .. 10 |-> [level |-> 5, type |-> "technical"]]

SaturationCase ==
  /\ scoreOutput[FALSE] # NotComputed
  /\ scoreInput.attempts = 10
  /\ scoreInput.hints = TenLevelFiveTechnicalHints

SaturatedFromBaseFive ==
  (SaturationCase /\ CalculateBaseComplexity(scoreInput.contribution) >= 5000)
    => scoreOutput[FALSE] = 100000

\* C11 (amended): in that case the score is the base complexity plus 85
\* (hint component 50, +20, +15), capped at 100: exactly 100 for every base
\* complexity >= 15, and base + 85 < 100 below that.
SaturatedFromBaseFifteen ==
  SaturationCase =>
    LET base == CalculateBaseComplexity(scoreInput.contribution) IN
    /\ base >= 15000 => scoreOutput[FALSE] = 100000
    /\ base < 15000 => scoreOutput[FALSE] = base + 85000

\* the case computed for a base complexity between 5 and 15
SaturationCaseBelowFifteen ==
  /\ SaturationCase
  /\ CalculateBaseComplexity(scoreInput.contribution) >= 5000
  /\ CalculateBaseComplexity(scoreInput.contribution) < 15000

\* C12: for the same contribution, hints and attempts, the score with
\* functionalityMatched = false is never lower than with true.
UnmatchedNeverLowerThanMatched ==
  (scoreOutput[FALSE] # NotComputed /\ scoreOutput[TRUE] # NotComputed)
    => scoreOutput[FALSE] >= scoreOutput[TRUE]

TechnicalFigure == combineInput.technicalAnalysis.kind = "scored"

SocialFigure == combineInput.socialAnalysis.kind = "present"

\* C13: when exactly one dimension produced a figure, the combined score is
\* that figure rounded to one decimal, its weight is 1.0, the other weight is
\* 0.0 and the confidence is 0.6.
SingleDimensionTakesFullWeight ==
  combineOutput.computed =>
    /\ (TechnicalFigure /\ ~SocialFigure) =>
         /\ combineOutput.score = RoundToTenth(combineOutput.technical)
         /\ combineOutput.technicalWeight = 100
         /\ combineOutput.socialWeight = 0
         /\ combineOutput.confidence = 6
    /\ (SocialFigure /\ ~TechnicalFigure) =>
         /\ combineOutput.score = RoundToTenth(combineOutput.social)
         /\ combineOutput.technicalWeight = 0
         /\ combineOutput.socialWeight = 100
         /\ combineOutput.confidence = 6

\* C14: the reported technicalWeight and socialWeight sum to exactly 1.0.
ReportedWeightsSumToOne ==
  combineOutput.computed =>
    combineOutput.technicalWeight + combineOutput.socialWeight = 100

----------------------------------------------------------------------------
(* Properties of the batch of core/contribution-analyzer.ts                 *)

ActiveTasks == {t \in Tasks : taskPc[t] \notin {"idle", "done"}}

\* C1: on the parallel path with concurrency c, never more than c executions
\* of analyzeContribution are active (started and not yet finished) at once.
AtMostConcurrencyActive ==
  ParallelPath => Cardinality(ActiveTasks) <= parallelOptions.concurrency

\* C2: on the parallel path, from the checkout of a task's pre-commit state
\* until that task's generated diff is extracted, the working directory still
\* holds that task's checkout: no other task has checked out its own commit
\* in the same directory.
WorkspaceNotShared ==
  ParallelPath =>
    \A t \in Tasks : taskPc[t] \in {"query", "extractDiff"} => repoHead = t

\* C3: whenever a query of task t resumes a session, the session id it passes
\* was captured in an earlier round of the same task t.
ResumedSessionOwnedByTask ==
  \A t \in Tasks : (taskPc[t] = "query" /\ taskResume[t] # 0) => taskResume[t] = t

ScoredTasks == {t \in 1 .. numFound : taskOutcome[t].kind = "score"}

TaskFailureNeverAbortsBatch ==
  (\E t \in Tasks : taskOutcome[t].kind \in {"threw", "null"}) =>
    /\ batchPc # "threw"
    /\ batchPc = "returned" =>
         \A t \in 1 .. numFound : taskPc[t] = "done" /\ taskOutcome[t].kind # "pending"

\* the sequential batch returned after one analysis threw and a later one
\* was scored
ThrownTaskFollowedByScoredTask ==
  /\ batchPc = "returned"
  /\ ~ParallelPath
  /\ \E t, u \in 1 .. numFound :
       /\ t < u
       /\ taskOutcome[t].kind = "threw"
       /\ taskOutcome[u].kind = "score"

----------------------------------------------------------------------------
(* Cleanup and prompts of the index.ts loop                                 *)

\* C21: every pre-commit repository that was created has its removal
\* attempted exactly once before the analysis returns, whatever ended the
\* loop; none is attempted while the loop runs or when nothing was created.
RemovalAttemptedExactlyOnce ==
  /\ (pc = "done" /\ preCommitRepo # "absent") => removeAttempts = 1
  /\ (pc # "done" \/ preCommitRepo = "absent") => removeAttempts = 0

\* the analysis returned after an agent failure in a hint round and the one
\* removal attempt itself failed
RemovalAttemptedAfterAgentFailure ==
  /\ pc = "done"
  /\ preCommitRepo = "present"
  /\ agentFailedAt >= 2
  /\ removeAttempts = 1

\* C22: the prompt of every round r > 1 is either the newest hint alone with
\* the session id captured in an earlier round as resume, or a full prompt
\* listing all r - 1 hints without resume; no prompt holds the reference diff.
LaterRoundsResumeOrRestate ==
  /\ ~lastPrompt.referenceDiff
  /\ attempts > 1 =>
       \/ /\ lastPrompt.kind = "latest-hint"
          /\ lastPrompt.hints = 1
          /\ lastPrompt.hintIndex = attempts - 1
          /\ lastPrompt.resume \in 1 .. (attempts - 1)
          /\ (pc # "done") => lastPrompt.resume = sessionId
       \/ /\ lastPrompt.kind = "full"
          /\ lastPrompt.hints = attempts - 1
          /\ lastPrompt.resume = 0

\* the third round resumes the session captured in the first
ThirdRoundResumesFirstSession ==
  /\ pc = "agent"
  /\ attempts = 3
  /\ lastPrompt.kind = "latest-hint"
  /\ lastPrompt.resume = 1

----------------------------------------------------------------------------
(* Failure handling and cleanup of the contribution-analyzer.ts batch       *)

\* C23: when the agent invocation of a task fails, the task's loop ends at
\* once: no hint is generated and the agent is not invoked for it again.
FailedInvocationEndsTaskLoop ==
  [][\A t \in Tasks :
       (taskPc[t] = "query" /\ taskPc'[t] \notin {"query", "extractDiff"}) =>
         /\ taskPc'[t] = "done"
         /\ Len(taskHints'[t]) <= Len(taskHints[t])]_vars

\* C24: a task that is not documentation-only and ends without throwing
\* yields a ContributionScore, also when the agent failed or the attempts
\* ran out; it is never dropped as null.
UnmatchedTaskStillScored ==
  \A t \in Tasks :
    ( /\ taskPc[t] = "done"
      /\ CategorizeBatchContribution(BatchContribution(t, docOnlyAt)) # "documentation-only"
      /\ taskOutcome[t].kind # "threw" ) =>
        taskOutcome[t].kind = "score"

\* C30: whenever analyzeContributions has returned or thrown after a
\* successful cloneRepository, GitAnalyzer.cleanup has been called.
CleanupCalledOnEveryExit ==
  (batchPc \in {"returned", "threw"} /\ clone # "none") => cleanupCalls >= 1

----------------------------------------------------------------------------
(* The scoring formula against its stated reference                         *)

\* the stated formula, in thousandths of a point
RECURSIVE ReferenceHintSum(_, _)
ReferenceHintSum(hints, n) ==
  IF n = 0 THEN 0
  ELSE ReferenceHintSum(hints, n - 1)
       + (CASE hints[n].type = "general"   -> 5000
            [] hints[n].type = "specific"  -> 10000
            [] hints[n].type = "technical" -> 15000)
       + 2000 * hints[n].level

ReferenceScore(c, hints, att, matched) ==
  LET base              == CalculateBaseComplexity(c)
      hintPenalty       == Min(50000, ReferenceHintSum(hints, Len(hints)))
      attemptAdjustment == IF ~matched THEN 20000
                           ELSE CASE att <= 1             -> -10000
                                  [] att \in {2, 3}        -> 0
                                  [] att \in {4, 5}        -> 5000
                                  [] att > 5               -> 10000
      difficultyBonus   == IF ~matched THEN 15000
                           ELSE Min(3000 * Len(hints), 20000)
                                + (IF att > 5 THEN 5000 ELSE 0)
                                + (IF Len(hints) > 7 THEN 10000 ELSE 0)
      sum               == base + hintPenalty + attemptAdjustment + difficultyBonus
  IN IF sum < 0 THEN 0 ELSE IF sum > 100000 THEN 100000 ELSE sum

\* C25: for every drawn contribution, hint list, attempt count and matched
\* flag, calculateComplexityScore returns the value of the stated formula.
ScoreEqualsReference ==
  \A m \in BOOLEAN :
    scoreOutput[m] # NotComputed =>
      scoreOutput[m] = ReferenceScore(scoreInput.contribution, scoreInput.hints,
                                      scoreInput.attempts, m)

\* a matched score below the ceiling with every bonus in play: two attempts,
\* eight hints of rising level, the smallest contribution
MatchedScoreWithEveryComponent ==
  /\ scoreOutput[TRUE] # NotComputed
  /\ scoreOutput[TRUE] < 100000
  /\ scoreInput.attempts = 2
  /\ Len(scoreInput.hints) = 8
  /\ scoreInput.hints[8].level = 8

\* the score the engine gives when only the first k hints are passed
ScoreOfPrefix(k, m) ==
  CalculateComplexityScore(scoreInput.contribution, k,
                           SubSeq(scoreInput.hints, 1, k), scoreInput.attempts, m)

\* C26: with contribution, attempts and matched flag fixed, the score for a
\* hint list is at least the score for each of its proper prefixes.
MoreHintsNeverLowerScore ==
  \A m \in BOOLEAN :
    scoreOutput[m] # NotComputed =>
      \A k \in 0 .. (Len(scoreInput.hints) - 1) : ScoreOfPrefix(k, m) <= scoreOutput[m]

\* a matched score of eight hints that is above the score of its first seven
EighthHintRaisesScore ==
  /\ scoreOutput[TRUE] # NotComputed
  /\ Len(scoreInput.hints) = 8
  /\ ScoreOfPrefix(7, TRUE) < scoreOutput[TRUE]

----------------------------------------------------------------------------
(* Confidence and weights of the combined score                             *)

ConfidenceFloorWithoutAnalyses ==
  combineOutput.computed =>
    /\ ( /\ combineInput.technicalAnalysis.kind = "null"
         /\ combineInput.socialAnalysis.kind = "null" ) =>
           (combineOutput.score = 0 /\ combineOutput.confidence = 1)
    /\ combineOutput.confidence \in {1, 6, 9}

\* both analyses failed for a developer with commits and issues on record
NoAnalysisDespiteActivity ==
  /\ combineOutput.computed
  /\ combineInput.technicalAnalysis.kind = "null"
  /\ combineInput.socialAnalysis.kind = "null"
  /\ combineInput.discovery.totalCommits = MaxActivity
  /\ combineInput.discovery.totalIssues > 0
  /\ combineOutput.confidence = 1

----------------------------------------------------------------------------
(* Repositories analysed in parallel through one GitAnalyzer                *)

\* C29: each repository's analysis reads its contributions from its own
\* clone and its cleanup removes only its own clone, whatever the
\* interleaving of the parallel analyses.
EachRepositoryUsesOwnClone ==
  /\ \A r \in Repositories : readFrom[r] \in {0, r}
  /\ \A d \in Repositories : removedBy[d] \in {0, d}

============================================================================
